---- MODULE Spec2Model ----
(***************************************************************************)
(* Daily vocabulary trainer: the client session of src/app/page.tsx        *)
(* (word selection, per-word phase machine, local progress store) and the  *)
(* assessment route of src/app/api/assess/route.ts as seen by the client.  *)
(*                                                                         *)
(* page.tsx holds three revisions of the page.  Their state handling is    *)
(* the same except for the shortcut out of the practice flow: the first    *)
(* two have dismissWord ("I know this one", phase "dismissed"), the third  *)
(* has onMarkDone ("Got it" / "Skip", phase "done").  The variable build   *)
(* says which of the two the running page is.                              *)
(***************************************************************************)
EXTENDS Naturals, Integers, Sequences, FiniteSets, TLC

VARIABLES
    build,          \* which revision of the page is deployed
    engine,         \* the JavaScript engine the page runs on
    otherStates,    \* useState wordStates of a second tab on the same localStorage
    loading,        \* useState loading
    uncaught,       \* an exception escaped a handler: the page is gone until a reload
    allWords,       \* useState allWords: the bank fetched from /data/words.json
    day,            \* value getDayKey() returns now
    storedState,    \* localStorage "sat-vocab-state": the item as it is stored
    storedCount,    \* localStorage "sat-vocab-count"
    wordCount,      \* useState wordCount
    dailyWords,     \* useState dailyWords
    wordStates,     \* useState wordStates: term -> WordState
    assessingWord,  \* useState assessingWord
    pending,        \* assessment requests in flight (awaited fetches)
    thenFor,        \* dismissWord's .then callback queued for this word
    sent,           \* number of requests sent so far
    budget,         \* number of requests the run may send
    route,          \* which revision of the assessment route is deployed
    now,            \* Date.now() of the service, in ms since it started
    rateMap,        \* the route's rateMap: ip -> { count, resetAt }
    uncleaned,      \* what rateMap would hold had the cleanup never run
    cleanupDue,     \* time from which the interval callback is due
    reply,          \* the route's answer to the last request it handled
    audit,          \* whether admissions are logged
    admitted,       \* log: ip -> time -> requests the limiter let through
    ticks,          \* number of times the clock may still advance
    serves          \* ip -> number of requests the route may still handle from it

\* the state of the page
page == <<build, engine, otherStates, loading, uncaught, allWords, day, storedState,
          storedCount, wordCount, dailyWords, wordStates, assessingWord, pending, thenFor,
          sent, budget>>

\* the state of the service
service == <<route, now, rateMap, uncleaned, cleanupDue, reply, audit, admitted, ticks,
             serves>>

vars == <<page, service>>

-----------------------------------------------------------------------------
(* Bounds and data *)

\* requests a run sends at most
MaxRequests == 3

\* requests the route handles at most from the address that sends most
MaxServed == 32

\* requests the route handles at most from any other address
MaxOther == 1

\* times the service's clock advances at most
MaxTicks == 3

\* word banks (/data/words.json; 160 entries in the repository)
Bank == <<"abate">>

PairBank == <<"abate", "banal">>

QuadBank == <<"abate", "banal", "candor", "daunt">>

QuintBank == <<"abate", "banal", "candor", "daunt", "ebb">>

NoWord == "null"

Builds == {"dismiss", "markDone"}

\* the options of the words-per-day control
CountOptions == {3, 4, 5}

DefaultCount == 5

NoCount == 0

\* a JS undefined score; like undefined it fails every >= comparison the code makes
Undefined == -1

UndefinedStr == "undefined"

\* a run of 1000 characters, written as one element of a text
MaxInputLength == 1000

LongRun == "X"

RunLength == MaxInputLength

\* texts are sequences of characters
NoText == <<UndefinedStr>>

\* what the user may have typed into a textarea
Inputs == { <<>>, <<" ">>, <<" ", "a", " ">>, <<LongRun, "b">> }

RECURSIVE Length(_)
Length(t) ==
    IF t = <<>> THEN 0
    ELSE (IF Head(t) = LongRun THEN RunLength ELSE 1) + Length(Tail(t))

RECURSIVE TrimStart(_)
TrimStart(t) ==
    IF t # <<>> /\ Head(t) = " " THEN TrimStart(Tail(t)) ELSE t

RECURSIVE TrimEnd(_)
TrimEnd(t) ==
    IF t # <<>> /\ t[Len(t)] = " " THEN TrimEnd(SubSeq(t, 1, Len(t) - 1)) ELSE t

\* trim that leaves trailing white space in place
TrimLeadingOnly(t) == TrimStart(t)

\* String.prototype.trim
Trim(t) == TrimEnd(TrimStart(t))

-----------------------------------------------------------------------------
(* WordState *)

Fields == {"phase", "userDefinition", "definitionFeedback", "userSentence",
           "sentenceFeedback"}

\* an absent feedback object
NoFeedback ==
    [set |-> FALSE, score |-> Undefined, feedback |-> UndefinedStr,
     improved |-> UndefinedStr]

\* { phase: "define" }
FreshState ==
    [phase |-> "define", userDefinition |-> NoText, definitionFeedback |-> NoFeedback,
     userSentence |-> NoText, sentenceFeedback |-> NoFeedback]

\* {} : what spreading an undefined prev[word] gives
EmptyState ==
    [phase |-> UndefinedStr, userDefinition |-> NoText, definitionFeedback |-> NoFeedback,
     userSentence |-> NoText, sentenceFeedback |-> NoFeedback]

FallbackMessage == "Could not assess - check your connection."

\* the object the catch branch of assessDefinition stores
DefinitionFallback ==
    [set |-> TRUE, score |-> 0, feedback |-> FallbackMessage, improved |-> UndefinedStr]

\* the object the catch branch of assessSentence stores
SentenceFallback ==
    [set |-> TRUE, score |-> 0, feedback |-> FallbackMessage, improved |-> ""]

-----------------------------------------------------------------------------
(* The assessment route, as far as the client can see it *)

MinScore == 1

MaxScore == 5

DismissThreshold == 4

\* scores the judge's JSON may carry: in range on both sides of the dismiss
\* threshold, and out of range
JudgeScores == {3, 4, 6}

SlowDownBody ==
    [set |-> TRUE, score |-> 0,
     feedback |-> "Slow down! Too many requests. Try again in a minute.",
     improved |-> UndefinedStr]

InvalidInputBody ==
    [set |-> TRUE, score |-> 0, feedback |-> "Invalid input.", improved |-> UndefinedStr]

InvalidTypeBody ==
    [set |-> TRUE, score |-> Undefined, feedback |-> UndefinedStr, improved |-> UndefinedStr]

UnavailableBody ==
    [set |-> TRUE, score |-> 0, feedback |-> "Assessment unavailable. Try again.",
     improved |-> UndefinedStr]

\* what callClaude followed by JSON.parse can give: a throw, or the parsed JSON
LlmResults(type) ==
    {[ok |-> FALSE, parsed |-> NoFeedback]} \cup
    {[ok |-> TRUE,
      parsed |-> [set |-> TRUE, score |-> s, feedback |-> "judge",
                  improved |-> IF type = "sentence" THEN "sample" ELSE UndefinedStr]]
        : s \in JudgeScores}

\* assessDefinition / assessSentence of the route: the parsed JSON is passed on as is
assessRoute(body, llm) ==
    IF llm.ok THEN [status |-> 200, body |-> llm.parsed, judged |-> TRUE]
    ELSE [status |-> 500, body |-> UnavailableBody, judged |-> TRUE]

\* !body.userInput: the property is missing, or it is the empty string
Falsy(text) == text = NoText \/ text = <<>>

\* POST with a rate-limit rejection that carries an error field and no score
POSTBareRejection(body, limited, llm) ==
    IF limited THEN [status |-> 429, body |-> InvalidTypeBody, judged |-> FALSE]
    ELSE IF Falsy(body.userInput) \/ Length(body.userInput) > MaxInputLength
         THEN [status |-> 400, body |-> InvalidInputBody, judged |-> FALSE]
    ELSE IF body.type \in {"definition", "sentence"} THEN assessRoute(body, llm)
    ELSE [status |-> 400, body |-> InvalidTypeBody, judged |-> FALSE]

\* POST: limited is what isRateLimited(ip) returned for this request
POST(body, limited, llm) ==
    IF limited THEN [status |-> 429, body |-> SlowDownBody, judged |-> FALSE]
    ELSE IF Falsy(body.userInput) \/ Length(body.userInput) > MaxInputLength
         THEN [status |-> 400, body |-> InvalidInputBody, judged |-> FALSE]
    ELSE IF body.type \in {"definition", "sentence"} THEN assessRoute(body, llm)
    ELSE [status |-> 400, body |-> InvalidTypeBody, judged |-> FALSE]

\* the fetch rejected, or res.json() threw on a body that is not JSON
Thrown == [kind |-> "throw", status |-> 0, body |-> NoFeedback]

\* everything awaiting the fetch and res.json() can end in, for request r
Outcomes(r) ==
    {Thrown} \cup
    {[kind |-> "response", status |-> resp.status, body |-> resp.body]
        : resp \in {POST(r, limited, llm) : limited \in BOOLEAN, llm \in LlmResults(r.type)}}

-----------------------------------------------------------------------------


(* The assessment route: rate limiter and request handling *)

\* the two revisions of the route in the repository: route.ts, and the earlier
\* one (src/unnamed/part_000) without limiter and input check
Routes == {"route.ts", "part_000"}

RATE_LIMIT == 30

RATE_WINDOW_MS == 60000

CLEANUP_INTERVAL_MS == 300000

\* no x-forwarded-for header (a header's split(",") is never empty)
NoHeader == <<>>

UnknownIp == <<"u", "n", "k", "n", "o", "w", "n">>

\* x-forwarded-for headers, as the parts split(",") gives
Headers == { NoHeader, << <<" ", "a">>, <<"b">> >> }

\* forwarded?.split(",")[0]?.trim() || "unknown"
ClientIp(header) ==
    IF header = NoHeader \/ Trim(Head(header)) = <<>> THEN UnknownIp
    ELSE Trim(Head(header))

Ips == {ClientIp(h) : h \in Headers}

NoEntries == <<>>

\* Map.set
MapSet(map, key, value) ==
    [k \in DOMAIN map \cup {key} |-> IF k = key THEN value ELSE map[k]]

\* isRateLimited that closes the window at its reset time already
isRateLimitedAtEnd(map, ip, t) ==
    IF ip \notin DOMAIN map \/ t >= map[ip].resetAt
    THEN [limited |-> FALSE,
          map |-> MapSet(map, ip, [count |-> 1, resetAt |-> t + RATE_WINDOW_MS])]
    ELSE [limited |-> map[ip].count + 1 > RATE_LIMIT,
          map |-> MapSet(map, ip, [map[ip] EXCEPT !.count = @ + 1])]

\* isRateLimited(ip) at Date.now() = t: the result, and rateMap after the call
isRateLimited(map, ip, t) ==
    IF ip \notin DOMAIN map \/ t > map[ip].resetAt
    THEN [limited |-> FALSE,
          map |-> MapSet(map, ip, [count |-> 1, resetAt |-> t + RATE_WINDOW_MS])]
    ELSE [limited |-> map[ip].count + 1 > RATE_LIMIT,
          map |-> MapSet(map, ip, [map[ip] EXCEPT !.count = @ + 1])]

\* the interval callback deleting every entry that has been counted up
cleanupCounted(map, t) ==
    [k \in {ip \in DOMAIN map : ~(map[ip].count > 1 \/ t > map[ip].resetAt)} |-> map[k]]

\* the interval callback at Date.now() = t: rateMap after it
cleanup(map, t) ==
    [k \in {ip \in DOMAIN map : ~(t > map[ip].resetAt)} |-> map[k]]

\* request bodies: userInput missing, empty, of 1, 1000 and 1001 characters
BodyInputs == { NoText, <<>>, <<"a">>, <<LongRun>>, <<LongRun, "b">> }

BodyTypes == {"definition", "sentence", "essay"}

\* what request.json() gives; json is false when it throws
Bodies ==
    [json : {TRUE}, type : BodyTypes, userInput : BodyInputs] \cup
    {[json |-> FALSE, type |-> UndefinedStr, userInput |-> NoText]}

\* a body the route accepts
PlainBody == [json |-> TRUE, type |-> "definition", userInput |-> <<"a">>]

\* POST of route.ts on the limiter's result, request.json() included
POSTLimited(body, limited, llm) ==
    IF limited \/ body.json THEN POST(body, limited, llm)
    ELSE [status |-> 500, body |-> UnavailableBody, judged |-> FALSE]

\* POST of the earlier revision: no limiter, no check of userInput
POSTEarly(body, llm) ==
    IF ~body.json THEN [status |-> 500, body |-> UnavailableBody, judged |-> FALSE]
    ELSE IF body.type \in {"definition", "sentence"} THEN assessRoute(body, llm)
    ELSE [status |-> 400, body |-> InvalidTypeBody, judged |-> FALSE]

-----------------------------------------------------------------------------
(* Selection and store *)

Min(a, b) == IF a < b THEN a ELSE b

\* the days of a run, and their day keys (getDayKey)
DayKeys == <<"2026-11-04", "2026-11-05">>

\* seedRandom(DayKeys[d]): whether the k-th draw of the generator has rng() - 0.5 < 0
RngNegative ==
    << <<FALSE, FALSE, FALSE, FALSE, TRUE, FALSE, TRUE, FALSE, FALSE, FALSE, TRUE, FALSE,
         FALSE, TRUE, FALSE, TRUE>>,
       <<FALSE, FALSE, TRUE, FALSE, TRUE, FALSE, TRUE, FALSE, FALSE, FALSE, TRUE, TRUE,
         TRUE, TRUE, FALSE, TRUE>> >>

\* the comparator () => rng() - 0.5 at its k-th call: negative or not, whatever
\* the two elements are
Negative(d, k) == RngNegative[d][k]

\* the JavaScript engines whose Array.prototype.sort the page may run on
Engines == {"v8", "spidermonkey"}

Reverse(s) == [i \in 1..Len(s) |-> s[Len(s) + 1 - i]]

\* V8 CountAndMakeRun: the length of the initial run, after k comparator calls
RECURSIVE V8Run(_, _, _, _, _)
V8Run(d, n, descending, idx, k) ==
    IF idx > n THEN [run |-> idx - 1, k |-> k]
    ELSE IF descending # Negative(d, k + 1) THEN [run |-> idx - 1, k |-> k + 1]
    ELSE V8Run(d, n, descending, idx + 1, k + 1)

\* V8 BinaryInsertionSort: the binary search for the place of the pivot
RECURSIVE V8Search(_, _, _, _)
V8Search(d, left, right, k) ==
    IF left >= right THEN [pos |-> left, k |-> k]
    ELSE LET mid == left + ((right - left) \div 2)
         IN IF Negative(d, k + 1) THEN V8Search(d, left, mid, k + 1)
            ELSE V8Search(d, mid + 1, right, k + 1)

\* V8 BinaryInsertionSort: insert the elements from position start on
RECURSIVE V8Insert(_, _, _, _)
V8Insert(d, a, start, k) ==
    IF start > Len(a) THEN a
    ELSE LET found == V8Search(d, 1, start, k)
         IN V8Insert(d,
                     SubSeq(a, 1, found.pos - 1) \o <<a[start]>>
                        \o SubSeq(a, found.pos, start - 1) \o SubSeq(a, start + 1, Len(a)),
                     start + 1, found.k)

\* V8 ArrayTimSortImpl for an array shorter than 64: one run, extended by
\* binary insertion
V8Sort(words, d) ==
    IF Len(words) < 2 THEN words
    ELSE LET descending == Negative(d, 1)
             made == V8Run(d, Len(words), descending, 3, 1)
             a == IF descending
                  THEN Reverse(SubSeq(words, 1, made.run))
                          \o SubSeq(words, made.run + 1, Len(words))
                  ELSE words
         IN V8Insert(d, a, made.run + 1, made.k)

\* SpiderMonkey MergeSort sorts chunks of this length by insertion first
InsertionSortLimit == 3

\* SpiderMonkey MergeSort, insertion part: sink the element at j towards lo
RECURSIVE SMSift(_, _, _, _, _)
SMSift(d, a, lo, j, k) ==
    IF Negative(d, k + 1) THEN [a |-> a, k |-> k + 1]
    ELSE LET swapped == [a EXCEPT ![j - 1] = a[j], ![j] = a[j - 1]]
         IN IF j - 1 = lo THEN [a |-> swapped, k |-> k + 1]
            ELSE SMSift(d, swapped, lo, j - 1, k + 1)

RECURSIVE SMChunk(_, _, _, _, _)
SMChunk(d, st, lo, i, hi) ==
    IF i > hi THEN st ELSE SMChunk(d, SMSift(d, st.a, lo, i, st.k), lo, i + 1, hi)

RECURSIVE SMChunks(_, _, _)
SMChunks(d, st, lo) ==
    IF lo > Len(st.a) THEN st
    ELSE SMChunks(d,
                  SMChunk(d, st, lo, lo + 1,
                          IF lo + InsertionSortLimit - 1 < Len(st.a)
                          THEN lo + InsertionSortLimit - 1 ELSE Len(st.a)),
                  lo + InsertionSortLimit)

\* SpiderMonkey MergeArrayRuns: the merge loop over src, whose first run has b elements
RECURSIVE SMMergeLoop(_, _, _, _, _, _, _)
SMMergeLoop(d, src, b, i, j, out, k) ==
    IF Negative(d, k + 1)
    THEN IF i = b
         THEN [a |-> Append(out, src[i]) \o SubSeq(src, j, Len(src)), k |-> k + 1]
         ELSE SMMergeLoop(d, src, b, i + 1, j, Append(out, src[i]), k + 1)
    ELSE IF j = Len(src)
         THEN [a |-> Append(out, src[j]) \o SubSeq(src, i, b), k |-> k + 1]
         ELSE SMMergeLoop(d, src, b, i, j + 1, Append(out, src[j]), k + 1)

\* SpiderMonkey MergeArrayRuns: nothing to do when the runs are already in order
SMMerge(d, src, b, k) ==
    IF Negative(d, k + 1) THEN [a |-> src, k |-> k + 1]
    ELSE SMMergeLoop(d, src, b, 1, b + 1, <<>>, k + 1)

\* one merge pass over runs of length run
RECURSIVE SMPass(_, _, _, _)
SMPass(d, st, run, lo) ==
    IF lo + run > Len(st.a) THEN st
    ELSE LET n == Len(st.a)
             hi == IF lo + 2 * run - 1 < n THEN lo + 2 * run - 1 ELSE n
             merged == SMMerge(d, SubSeq(st.a, lo, hi), run, st.k)
         IN SMPass(d,
                   [a |-> SubSeq(st.a, 1, lo - 1) \o merged.a \o SubSeq(st.a, hi + 1, n),
                    k |-> merged.k],
                   run, lo + 2 * run)

RECURSIVE SMPasses(_, _, _)
SMPasses(d, st, run) ==
    IF run >= Len(st.a) THEN st.a ELSE SMPasses(d, SMPass(d, st, run, 1), 2 * run)

\* SpiderMonkey MergeSort
SMSort(words, d) ==
    IF Len(words) < 2 THEN words
    ELSE SMPasses(d, SMChunks(d, [a |-> words, k |-> 0], 1), InsertionSortLimit)

\* [...allWords].sort(() => rng() - 0.5): the comparator is not consistent, so the
\* order is the one the engine's algorithm happens to produce
Shuffled(words, d, e) == IF e = "v8" THEN V8Sort(words, d) ELSE SMSort(words, d)

\* parseInt of a stored count that is not a number
NotANumber == -1

\* the end of slice(0, count) on an array of n elements
SliceEnd(count, n) == IF count = NotANumber THEN 0 ELSE Min(count, n)

\* getDailyWords with every element but the first of the slice
getDailyWordsOffByOne(words, d, count, e) ==
    SubSeq(Shuffled(words, d, e), 2, SliceEnd(count, Len(words)))

\* getDailyWords: shuffled.slice(0, count)
getDailyWords(words, d, count, e) ==
    SubSeq(Shuffled(words, d, e), 1, SliceEnd(count, Len(words)))

Range(f) == {f[i] : i \in DOMAIN f}

\* DayState that falls back to the entry of the day before
DayStatePrevious(stored, d) ==
    IF d \in DOMAIN stored THEN stored[d]
    ELSE IF d - 1 \in DOMAIN stored THEN stored[d - 1] ELSE [w \in {} |-> FreshState]

\* stored[day] || {}
DayState(stored, d) ==
    IF d \in DOMAIN stored THEN stored[d] ELSE [w \in {} |-> FreshState]

\* savedCount ? parseInt(savedCount) : 5
LoadCount(saved) == IF saved = NoCount THEN DefaultCount ELSE saved

\* a load effect that starts every word afresh
LoadStatesFresh(stored, d, daily) == [w \in Range(daily) |-> FreshState]

\* the states the load effect builds for the daily words
LoadStates(stored, d, daily) ==
    [w \in Range(daily) |->
        IF w \in DOMAIN DayState(stored, d) THEN DayState(stored, d)[w] ELSE FreshState]

\* the item "sat-vocab-state" is absent: getItem returns null
AbsentSlot == [kind |-> "absent", days |-> <<>>]

\* the item holds the JSON text of an object with these days
ObjectSlot(days) == [kind |-> "object", days |-> days]

\* contents of the item a page can find at startup: nothing, text that is not
\* JSON, the texts null and 5, and the text {}
SlotContents ==
    {AbsentSlot, [kind |-> "invalid", days |-> <<>>], [kind |-> "null", days |-> <<>>],
     [kind |-> "number", days |-> <<>>], ObjectSlot(<<>>)}

FeedbackKeys == {"score", "feedback", "improved"}

\* JSON.stringify leaves out the properties an object does not have
PresentKeys(fb) ==
    {k \in FeedbackKeys : fb[k] # (IF k = "score" THEN Undefined ELSE UndefinedStr)}

\* JSON.stringify of a feedback object that keeps the truthy values only
StringifyFeedbackTruthy(fb) ==
    [k \in {j \in PresentKeys(fb) : fb[j] # (IF j = "score" THEN 0 ELSE "")} |-> fb[k]]

StringifyFeedback(fb) == [k \in PresentKeys(fb) |-> fb[k]]

PresentFields(state) ==
    {f \in Fields :
        CASE f = "phase" -> state[f] # UndefinedStr
          [] f \in {"userDefinition", "userSentence"} -> state[f] # NoText
          [] OTHER -> state[f].set}

StringifyState(state) ==
    [f \in PresentFields(state) |->
        IF f \in {"definitionFeedback", "sentenceFeedback"}
        THEN StringifyFeedback(state[f]) ELSE state[f]]

\* JSON.stringify of a store: day -> term -> WordState
JSONstringify(days) ==
    [d \in DOMAIN days |-> [w \in DOMAIN days[d] |-> StringifyState(days[d][w])]]

ParseFeedback(json) ==
    [set |-> TRUE,
     score |-> IF "score" \in DOMAIN json THEN json["score"] ELSE Undefined,
     feedback |-> IF "feedback" \in DOMAIN json THEN json["feedback"] ELSE UndefinedStr,
     improved |-> IF "improved" \in DOMAIN json THEN json["improved"] ELSE UndefinedStr]

ParseState(json) ==
    [f \in Fields |->
        IF f \in DOMAIN json
        THEN IF f \in {"definitionFeedback", "sentenceFeedback"}
             THEN ParseFeedback(json[f]) ELSE json[f]
        ELSE EmptyState[f]]

\* JSON.parse of the text of a store
JSONparse(days) ==
    [d \in DOMAIN days |-> [w \in DOMAIN days[d] |-> ParseState(days[d][w])]]

\* getLocalState: JSON.parse(getItem(...) || "{}"), and {} when that throws
getLocalState(slot) ==
    CASE slot.kind \in {"absent", "invalid"} -> [kind |-> "object", days |-> <<>>]
      [] slot.kind = "object" -> [kind |-> "object", days |-> JSONparse(slot.days)]
      [] OTHER -> [kind |-> slot.kind, days |-> <<>>]

\* saveLocalState: setItem(..., JSON.stringify(state))
saveLocalState(days) == ObjectSlot(JSONstringify(days))

\* persistState that leaves a day's entry alone once it exists
persistStateKeep(stored, d, newStates) ==
    [k \in DOMAIN stored \cup {d} |-> IF k \in DOMAIN stored THEN stored[k] ELSE newStates]

\* persistState: stored[day] = newStates
persistState(stored, d, newStates) ==
    [k \in DOMAIN stored \cup {d} |-> IF k = d THEN newStates ELSE stored[k]]

\* { ...update } without the spread of prev[word]
MergeReplace(old, update) ==
    [f \in Fields |-> IF f \in DOMAIN update THEN update[f] ELSE EmptyState[f]]

\* { ...prev[word], ...update }
Merge(old, update) ==
    [f \in Fields |-> IF f \in DOMAIN update THEN update[f] ELSE old[f]]

\* the next map of updateWordState: { ...prev, [word]: { ...prev[word], ...update } }
NextStates(prev, word, update) ==
    [w \in DOMAIN prev \cup {word} |->
        IF w = word
        THEN Merge(IF word \in DOMAIN prev THEN prev[word] ELSE EmptyState, update)
        ELSE prev[w]]

\* updateWordState that saves the map it was given, not the one it computed
updateWordStateStale(word, update) ==
    IF getLocalState(storedState).kind = "object"
    THEN /\ wordStates' = NextStates(wordStates, word, update)
         /\ storedState' = saveLocalState(persistState(getLocalState(storedState).days, day,
                                                        wordStates))
         /\ uncaught' = FALSE
    ELSE /\ uncaught' = TRUE
         /\ UNCHANGED <<wordStates, storedState>>

\* updateWordState(word, update): persistState runs inside the state updater; on a
\* stored value that is not an object, stored[day] = newStates throws (strict mode)
updateWordState(word, update) ==
    IF getLocalState(storedState).kind = "object"
    THEN /\ wordStates' = NextStates(wordStates, word, update)
         /\ storedState' = saveLocalState(persistState(getLocalState(storedState).days, day,
                                                        NextStates(wordStates, word, update)))
         /\ uncaught' = FALSE
    ELSE /\ uncaught' = TRUE
         /\ UNCHANGED <<wordStates, storedState>>

-----------------------------------------------------------------------------
(* The page *)

\* the load effect of a freshly mounted page, run on the contents of localStorage;
\* stored[day] throws on a stored null, before any state but allWords is set
Load ==
    /\ IF getLocalState(storedState).kind = "null"
       THEN /\ wordCount' = DefaultCount
            /\ dailyWords' = <<>>
            /\ wordStates' = <<>>
            /\ loading' = TRUE
            /\ uncaught' = TRUE
       ELSE /\ wordCount' = LoadCount(storedCount')
            /\ dailyWords' = getDailyWords(allWords, day, LoadCount(storedCount'), engine)
            /\ wordStates' = LoadStates(getLocalState(storedState).days, day,
                                        getDailyWords(allWords, day, LoadCount(storedCount'),
                                                      engine))
            /\ loading' = FALSE
            /\ uncaught' = FALSE
    /\ assessingWord' = NoWord
    /\ pending' = {}
    /\ thenFor' = NoWord
    /\ UNCHANGED <<service, build, engine, otherStates, allWords, day, storedState, sent, budget>>

\* before the route has handled anything
NoReply ==
    [ip |-> NoHeader, at |-> 0, known |-> FALSE, plainKnown |-> FALSE, limited |-> FALSE,
     plain |-> FALSE, request |-> [json |-> FALSE, type |-> UndefinedStr, userInput |-> NoText],
     status |-> 0, body |-> NoFeedback, judged |-> FALSE]

\* the service when its module has just been loaded
ServiceStarted(routes, logging, clock, requests) ==
    /\ route \in routes
    /\ now = 0
    /\ rateMap = NoEntries
    /\ uncleaned = NoEntries
    /\ cleanupDue = CLEANUP_INTERVAL_MS
    /\ reply = NoReply
    /\ audit = logging
    /\ admitted = NoEntries
    /\ ticks = clock
    /\ serves = requests

\* a page that talks to route.ts; the service's own steps are left out
Idle == ServiceStarted({"route.ts"}, FALSE, 0, [ip \in Ips |-> 0])

\* the page after its first load, with nothing in localStorage
PageStarted(builds, engines, words, requests) ==
    /\ build \in builds
    /\ engine \in engines
    /\ otherStates = <<>>
    /\ loading = FALSE
    /\ uncaught = FALSE
    /\ allWords = words
    /\ day = 1
    /\ storedState = AbsentSlot
    /\ storedCount = NoCount
    /\ wordCount = DefaultCount
    /\ dailyWords = getDailyWords(words, 1, DefaultCount, engine)
    /\ wordStates = [w \in Range(getDailyWords(words, 1, DefaultCount, engine)) |-> FreshState]
    /\ assessingWord = NoWord
    /\ pending = {}
    /\ thenFor = NoWord
    /\ sent = 0
    /\ budget = requests

\* the page after its first load, and the service
Started(builds, engines, words, requests) ==
    PageStarted(builds, engines, words, requests) /\ Idle

Init == Started(Builds, {"v8"}, Bank, MaxRequests)

PairInit == Started(Builds, {"v8"}, PairBank, MaxRequests - 1)

StoreInit == Started({"markDone"}, {"v8"}, QuadBank, MaxRequests - 1)

LiveInit == Started(Builds, {"v8"}, Bank, MaxRequests - 1)

DismissInit == Started({"dismiss"}, {"v8"}, Bank, MaxRequests)

\* contents of the item "sat-vocab-count" a page can find at startup: nothing, a
\* count the page wrote, the text 7, and text that is not a number
CountContents == {NoCount, 3, 5, 7, NotANumber}

\* the page mounted, its load effect not yet run, on some contents of localStorage
Unloaded(builds, engines, words, requests, slots, counts) ==
    /\ build \in builds
    /\ engine \in engines
    /\ otherStates = <<>>
    /\ loading = TRUE
    /\ uncaught = FALSE
    /\ allWords = words
    /\ day = 1
    /\ storedState \in slots
    /\ storedCount \in counts
    /\ wordCount = DefaultCount
    /\ dailyWords = <<>>
    /\ wordStates = <<>>
    /\ assessingWord = NoWord
    /\ pending = {}
    /\ thenFor = NoWord
    /\ sent = 0
    /\ budget = requests
    /\ Idle

\* requests per address
Traffic(most, other) == [ip \in Ips |-> IF ip = UnknownIp THEN most ELSE other]

\* route.ts with its admissions logged, for the first two minutes
WindowInit ==
    /\ PageStarted({"markDone"}, {"v8"}, Bank, 0)
    /\ ServiceStarted({"route.ts"}, TRUE, MaxTicks - 1, Traffic(MaxServed, MaxOther))

\* either revision of the route, a few requests of every shape
BoundaryInit ==
    /\ PageStarted({"markDone"}, {"v8"}, Bank, 0)
    /\ ServiceStarted(Routes, FALSE, MaxTicks - 2, Traffic(MaxOther + 1, MaxOther))

\* four words of which three are selected once the count is 3, one day
CountInit == Started({"markDone"}, {"v8"}, QuadBank, MaxRequests - 2)

\* four words of which three are selected once the count is 3, two days
MidnightInit == Started({"markDone"}, {"v8"}, QuadBank, MaxRequests - 2)

\* route.ts from the load of its module on, past the first cleanup
LimiterInit ==
    /\ PageStarted({"markDone"}, {"v8"}, Bank, 0)
    /\ ServiceStarted({"route.ts"}, FALSE, MaxTicks - 1, Traffic(MaxServed, MaxOther))

\* two words, the page with onMarkDone
SubmitInit == Started({"markDone"}, {"v8"}, PairBank, MaxRequests - 1)

DayInit == Started({"markDone"}, Engines, PairBank, MaxRequests - 2)

TabsInit == Started({"markDone"}, {"v8"}, Bank, MaxRequests - 2)

ColdInit ==
    Unloaded({"markDone"}, {"v8"}, QuintBank, MaxRequests - 1, SlotContents, CountContents)

\* the card of word w is on the page and renders the block of phase p
Card(w, p) ==
    /\ w \in Range(dailyWords)
    /\ w \in DOMAIN wordStates
    /\ wordStates[w].phase = p

\* the user can act on that block: no callback is queued ahead of the event
Shows(w, p) == thenFor = NoWord /\ ~uncaught /\ Card(w, p)

\* disabled={!inputValue.trim() || assessing} is false
ButtonEnabled(w, input) == Trim(input) # <<>> /\ assessingWord # w

\* the body of an assessment request, and whether dismissWord sent it
Request(w, type, text, dismiss) ==
    [id |-> sent + 1, word |-> w, type |-> type, userInput |-> text, dismiss |-> dismiss]

\* the start of assessDefinition / assessSentence, up to the awaited fetch
StartAssess(w, type, text, dismiss) ==
    /\ sent < budget
    /\ assessingWord' = w
    /\ pending' = pending \cup {Request(w, type, text, dismiss)}
    /\ sent' = sent + 1
    /\ UNCHANGED <<service, build, engine, otherStates, loading, uncaught, allWords, day, storedState,
                   storedCount, wordCount, dailyWords, wordStates, thenFor, budget>>

\* Enter in the definition textarea
DefinitionEnter(w, input) ==
    /\ Shows(w, "define")
    /\ Trim(input) # <<>>
    /\ StartAssess(w, "definition", Trim(input), FALSE)

\* the Check button
DefinitionCheck(w, input) ==
    /\ Shows(w, "define")
    /\ ButtonEnabled(w, input)
    /\ StartAssess(w, "definition", Trim(input), FALSE)

\* the "I know this one" button: dismissWord
DismissClick(w, input) ==
    /\ build = "dismiss"
    /\ Shows(w, "define")
    /\ ButtonEnabled(w, input)
    /\ StartAssess(w, "definition", Trim(input), TRUE)

\* Enter in the sentence textarea
SentenceEnter(w, input) ==
    /\ Shows(w, "sentence")
    /\ Trim(input) # <<>>
    /\ StartAssess(w, "sentence", Trim(input), FALSE)

\* the Submit button
SentenceSubmit(w, input) ==
    /\ Shows(w, "sentence")
    /\ ButtonEnabled(w, input)
    /\ StartAssess(w, "sentence", Trim(input), FALSE)

\* onMoveSentence
MoveSentence(w) ==
    /\ Shows(w, "revealed")
    /\ updateWordState(w, [f \in {"phase"} |-> "sentence"])
    /\ UNCHANGED <<service, build, engine, otherStates, loading, allWords, day, storedCount, wordCount,
                   dailyWords, assessingWord, pending, thenFor, sent, budget>>

\* the phases whose card has a button wired to onMarkDone ("Got it", "Skip")
MarkDonePhases == {"revealed", "sentence"}

\* onMarkDone
MarkDone(w) ==
    /\ build = "markDone"
    /\ \E p \in MarkDonePhases : Shows(w, p)
    /\ updateWordState(w, [f \in {"phase"} |-> "done"])
    /\ UNCHANGED <<service, build, engine, otherStates, loading, allWords, day, storedCount, wordCount,
                   dailyWords, assessingWord, pending, thenFor, sent, budget>>

\* AssessUpdate with catch branches that record the failure and nothing else
AssessUpdateNoAdvance(r, o) ==
    IF o.kind = "throw"
    THEN IF r.type = "definition"
         THEN [f \in {"definitionFeedback"} |-> DefinitionFallback]
         ELSE [f \in {"sentenceFeedback"} |-> SentenceFallback]
    ELSE IF r.type = "definition"
    THEN [f \in {"phase", "userDefinition", "definitionFeedback"} |->
            CASE f = "phase" -> "revealed"
              [] f = "userDefinition" -> r.userInput
              [] OTHER -> o.body]
    ELSE [f \in {"phase", "userSentence", "sentenceFeedback"} |->
            CASE f = "phase" -> "feedback"
              [] f = "userSentence" -> r.userInput
              [] OTHER -> o.body]

\* AssessUpdate that leaves a definition feedback the word already has in place
AssessUpdateKeepFirst(r, o) ==
    IF r.type = "definition"
    THEN [f \in {"phase", "userDefinition", "definitionFeedback"} |->
            CASE f = "phase" -> "revealed"
              [] f = "userDefinition" -> r.userInput
              [] OTHER ->
                   IF r.word \in DOMAIN wordStates /\ wordStates[r.word].definitionFeedback.set
                   THEN wordStates[r.word].definitionFeedback
                   ELSE IF o.kind = "throw" THEN DefinitionFallback ELSE o.body]
    ELSE [f \in {"phase", "userSentence", "sentenceFeedback"} |->
            CASE f = "phase" -> "feedback"
              [] f = "userSentence" -> r.userInput
              [] OTHER -> IF o.kind = "throw" THEN SentenceFallback ELSE o.body]

\* the update the rest of assessDefinition / assessSentence applies for outcome o
AssessUpdate(r, o) ==
    IF r.type = "definition"
    THEN [f \in {"phase", "userDefinition", "definitionFeedback"} |->
            CASE f = "phase" -> "revealed"
              [] f = "userDefinition" -> r.userInput
              [] OTHER -> IF o.kind = "throw" THEN DefinitionFallback ELSE o.body]
    ELSE [f \in {"phase", "userSentence", "sentenceFeedback"} |->
            CASE f = "phase" -> "feedback"
              [] f = "userSentence" -> r.userInput
              [] OTHER -> IF o.kind = "throw" THEN SentenceFallback ELSE o.body]

\* Respond with empty catch branches: a thrown call only clears assessingWord
RespondSwallow(r, o) ==
    /\ thenFor = NoWord
    /\ ~uncaught
    /\ r \in pending
    /\ o \in Outcomes(r)
    /\ IF o.kind = "throw"
       THEN UNCHANGED <<wordStates, storedState, uncaught>>
       ELSE updateWordState(r.word, AssessUpdate(r, o))
    /\ assessingWord' = NoWord
    /\ pending' = pending \ {r}
    /\ thenFor' = IF r.dismiss THEN r.word ELSE NoWord
    /\ UNCHANGED <<service, build, engine, otherStates, loading, allWords, day, storedCount, wordCount,
                   dailyWords, sent, budget>>

\* the awaited fetch of request r ends in outcome o: the try or the catch branch,
\* then setAssessingWord(null); dismissWord's .then callback is queued behind it
Respond(r, o) ==
    /\ thenFor = NoWord
    /\ ~uncaught
    /\ r \in pending
    /\ o \in Outcomes(r)
    /\ updateWordState(r.word, AssessUpdate(r, o))
    /\ assessingWord' = NoWord
    /\ pending' = pending \ {r}
    /\ thenFor' = IF r.dismiss THEN r.word ELSE NoWord
    /\ UNCHANGED <<service, build, engine, otherStates, loading, allWords, day, storedCount, wordCount,
                   dailyWords, sent, budget>>

\* DismissGuard with the threshold one too low
DismissGuardLoose(state) ==
    state.definitionFeedback.set /\ state.definitionFeedback.score >= DismissThreshold - 1

\* state?.definitionFeedback && state.definitionFeedback.score >= 4
DismissGuard(state) ==
    state.definitionFeedback.set /\ state.definitionFeedback.score >= DismissThreshold

\* the .then callback of dismissWord
DismissThen(w) ==
    /\ thenFor = w
    /\ ~uncaught
    /\ w # NoWord
    /\ IF w \in DOMAIN wordStates /\ DismissGuard(wordStates[w])
       THEN updateWordState(w, [f \in {"phase"} |-> "dismissed"])
       ELSE UNCHANGED <<wordStates, storedState, uncaught>>
    /\ thenFor' = NoWord
    /\ UNCHANGED <<service, build, engine, otherStates, loading, allWords, day, storedCount, wordCount,
                   dailyWords, assessingWord, pending, sent, budget>>

\* the user reloads the page
Reload ==
    /\ thenFor = NoWord
    /\ uncaught \/ ~loading
    /\ storedCount' = storedCount
    /\ Load

\* the words-per-day control: store the count, then window.location.reload()
ChangeWordCount(n) ==
    /\ thenFor = NoWord
    /\ ~loading
    /\ ~uncaught
    /\ n # wordCount
    /\ storedCount' = n
    /\ Load

\* the load effect of the mounted page runs
LoadEffect ==
    /\ loading
    /\ ~uncaught
    /\ storedCount' = storedCount
    /\ Load

\* midnight in America/New_York passes: getDayKey() returns the next day's key
NextDay ==
    /\ day < Len(DayKeys)
    /\ day' = day + 1
    /\ UNCHANGED <<service, build, engine, otherStates, loading, uncaught, allWords, storedState,
                   storedCount, wordCount, dailyWords, wordStates, assessingWord, pending,
                   thenFor, sent, budget>>

\* a second tab of the same browser is opened or reloaded: its load effect
OtherLoad ==
    /\ getLocalState(storedState).kind = "object"
    /\ otherStates' = LoadStates(getLocalState(storedState).days, day,
                                 getDailyWords(allWords, day, LoadCount(storedCount), engine))
    /\ otherStates' # otherStates
    /\ UNCHANGED <<service, build, engine, loading, uncaught, allWords, day, storedState, storedCount,
                   wordCount, dailyWords, wordStates, assessingWord, pending, thenFor, sent,
                   budget>>

\* updateWordState(word, update) in the second tab
OtherUpdate(word, update) ==
    /\ getLocalState(storedState).kind = "object"
    /\ otherStates' = NextStates(otherStates, word, update)
    /\ storedState' = saveLocalState(persistState(getLocalState(storedState).days, day,
                                                   NextStates(otherStates, word, update)))
    /\ UNCHANGED <<service, build, engine, loading, uncaught, allWords, day, storedCount, wordCount,
                   dailyWords, wordStates, assessingWord, pending, thenFor, sent, budget>>

\* the definition the second tab submits
OtherRequest(w) == [id |-> 0, word |-> w, type |-> "definition", userInput |-> <<"a">>,
                    dismiss |-> FALSE]

\* the second tab: a definition is submitted and its fetch ends in outcome o
OtherAssess(w, o) ==
    /\ w \in DOMAIN otherStates
    /\ otherStates[w].phase = "define"
    /\ OtherUpdate(w, AssessUpdate(OtherRequest(w), o))

\* the second tab: onMoveSentence
OtherMoveSentence(w) ==
    /\ w \in DOMAIN otherStates
    /\ otherStates[w].phase = "revealed"
    /\ OtherUpdate(w, [f \in {"phase"} |-> "sentence"])

\* the admissions log with one more request of ip at time t
Logged(log, ip, t) ==
    LET old == IF ip \in DOMAIN log THEN log[ip] ELSE NoEntries
    IN  MapSet(log, ip, MapSet(old, t, IF t \in DOMAIN old THEN old[t] + 1 ELSE 1))

\* POST(request) of the deployed route at Date.now() = now
Serve(header, body, llm) ==
    /\ serves[ClientIp(header)] > 0
    /\ serves' = [serves EXCEPT ![ClientIp(header)] = @ - 1]
    /\ LET ip      == ClientIp(header)
           checked == IF route = "route.ts" THEN isRateLimited(rateMap, ip, now)
                      ELSE [limited |-> FALSE, map |-> rateMap]
           plain   == IF route = "route.ts" THEN isRateLimited(uncleaned, ip, now)
                      ELSE [limited |-> FALSE, map |-> uncleaned]
           resp    == IF route = "route.ts" THEN POSTLimited(body, checked.limited, llm)
                      ELSE POSTEarly(body, llm)
       IN  /\ rateMap' = checked.map
           /\ uncleaned' = plain.map
           /\ reply' = [ip |-> ip, at |-> now, known |-> ip \in DOMAIN rateMap,
                        plainKnown |-> ip \in DOMAIN uncleaned,
                        limited |-> checked.limited, plain |-> plain.limited,
                        request |-> body, status |-> resp.status, body |-> resp.body,
                        judged |-> resp.judged]
           /\ admitted' = IF audit /\ ~checked.limited THEN Logged(admitted, ip, now)
                          ELSE admitted
    /\ UNCHANGED <<page, route, now, cleanupDue, audit, ticks>>

\* time passes
Tick(d) ==
    /\ ticks > 0
    /\ ticks' = ticks - 1
    /\ now' = now + d
    /\ UNCHANGED <<page, route, rateMap, uncleaned, cleanupDue, reply, audit, admitted,
                   serves>>

\* the setInterval callback of route.ts; timers fire late, never early
Cleanup ==
    /\ route = "route.ts"
    /\ now >= cleanupDue
    /\ cleanupDue' = now + CLEANUP_INTERVAL_MS
    /\ rateMap' = cleanup(rateMap, now)
    /\ UNCHANGED <<page, route, now, uncleaned, reply, audit, admitted, ticks, serves>>

\* what every revision of the page does
Shared ==
    \/ \E w \in Range(allWords), input \in Inputs : DefinitionEnter(w, input)
    \/ \E w \in Range(allWords), input \in Inputs : DefinitionCheck(w, input)
    \/ \E w \in Range(allWords), input \in Inputs : SentenceEnter(w, input)
    \/ \E w \in Range(allWords), input \in Inputs : SentenceSubmit(w, input)
    \/ \E w \in Range(allWords) : MoveSentence(w)
    \/ \E r \in pending : \E o \in Outcomes(r) : Respond(r, o)
    \/ Reload
    \/ \E n \in CountOptions : ChangeWordCount(n)

\* the revisions with dismissWord
Dismissing ==
    \/ \E w \in Range(allWords), input \in Inputs : DismissClick(w, input)
    \/ \E w \in Range(allWords) : DismissThen(w)

\* the revision with onMarkDone
Marking == \E w \in Range(allWords) : MarkDone(w)

Next == Shared \/ Dismissing \/ Marking

\* the steps of a page with dismissWord
DismissNext == Shared \/ Dismissing

\* one word, the full request budget
Spec == Init /\ [][Next]_vars

\* the awaited fetch of request number i ends
RespondTo(i) == \E r \in pending : r.id = i /\ \E o \in Outcomes(r) : Respond(r, o)

\* every fetch settles, and a queued promise callback runs
Fairness ==
    /\ \A i \in 1..MaxRequests : WF_vars(RespondTo(i))
    /\ WF_vars(\E w \in Range(allWords) : DismissThen(w))

\* one word, one request fewer, fair
LiveSpec == LiveInit /\ [][Next]_vars /\ Fairness

\* one word, the full request budget, the page with dismissWord
DismissSpec == DismissInit /\ [][DismissNext]_vars

\* two words, one request fewer
PairSpec == PairInit /\ [][Next]_vars

\* the steps of a page with onMarkDone
MarkNext == Shared \/ Marking

\* four words, one request fewer, the page with onMarkDone
StoreSpec == StoreInit /\ [][MarkNext]_vars

\* the steps of a page with onMarkDone up to the sentence block, the count left
\* as it is
SubmitNext ==
    \/ \E w \in Range(allWords), input \in Inputs : DefinitionEnter(w, input)
    \/ \E w \in Range(allWords), input \in Inputs : DefinitionCheck(w, input)
    \/ \E w \in Range(allWords) : MoveSentence(w)
    \/ \E r \in pending : \E o \in Outcomes(r) : Respond(r, o)
    \/ Reload
    \/ Marking

\* two words, one request fewer, the page with onMarkDone
SubmitSpec == SubmitInit /\ [][SubmitNext]_vars

\* the steps of a page with onMarkDone from its mount on
ColdNext == MarkNext \/ LoadEffect

\* five words, one request fewer, any contents of localStorage at startup
ColdSpec == ColdInit /\ [][ColdNext]_vars

\* the steps of a page with onMarkDone that stays open over midnight, for a user
\* who submits definitions with the Enter key and writes no sentences
DayNext ==
    \/ \E w \in Range(allWords), input \in Inputs : DefinitionEnter(w, input)
    \/ \E w \in Range(allWords) : MoveSentence(w)
    \/ \E r \in pending : \E o \in Outcomes(r) : Respond(r, o)
    \/ Reload
    \/ \E n \in CountOptions : ChangeWordCount(n)
    \/ Marking
    \/ NextDay

\* two words, two requests fewer, either engine, two days
DaySpec == DayInit /\ [][DayNext]_vars

\* the steps of two tabs with onMarkDone on one localStorage; in the first tab
\* definitions are submitted with the Enter key and no sentences are written
TabsNext ==
    \/ \E w \in Range(allWords), input \in Inputs : DefinitionEnter(w, input)
    \/ \E w \in Range(allWords) : MoveSentence(w)
    \/ \E r \in pending : \E o \in Outcomes(r) : Respond(r, o)
    \/ Reload
    \/ \E n \in CountOptions : ChangeWordCount(n)
    \/ Marking
    \/ OtherLoad
    \/ \E w \in Range(allWords) : \E o \in Outcomes(OtherRequest(w)) : OtherAssess(w, o)
    \/ \E w \in Range(allWords) : OtherMoveSentence(w)

\* one word, two requests fewer, two tabs
TabsSpec == TabsInit /\ [][TabsNext]_vars

\* by how much the clock advances between two events: within a window
WindowSteps == {1, RATE_WINDOW_MS - 1}

\* ... and up to the cleanup
Steps == WindowSteps \cup {CLEANUP_INTERVAL_MS}

\* the judge's answer while only the limiter is looked at
PlainAnswer ==
    CHOOSE llm \in LlmResults(PlainBody.type) : llm.ok /\ llm.parsed.score = DismissThreshold

\* route.ts before the first cleanup is due
WindowNext ==
    \/ \E h \in Headers : Serve(h, PlainBody, PlainAnswer)
    \/ \E d \in WindowSteps : Tick(d)

WindowSpec == WindowInit /\ [][WindowNext]_vars

\* the route handling requests of every shape
BoundaryNext ==
    \/ \E h \in Headers, body \in Bodies : \E llm \in LlmResults(body.type) :
          Serve(h, body, llm)
    \/ \E d \in WindowSteps : Tick(d)

BoundarySpec == BoundaryInit /\ [][BoundaryNext]_vars

\* the steps of a page with onMarkDone within one day; definitions are submitted
\* with the Enter key and no sentences are written
CountNext ==
    \/ \E w \in Range(allWords), input \in Inputs : DefinitionEnter(w, input)
    \/ \E w \in Range(allWords) : MoveSentence(w)
    \/ \E r \in pending : \E o \in Outcomes(r) : Respond(r, o)
    \/ Reload
    \/ \E n \in CountOptions : ChangeWordCount(n)
    \/ Marking

\* four words, two requests fewer, one day
CountSpec == CountInit /\ [][CountNext]_vars

\* four words, two requests fewer, two days
MidnightSpec == MidnightInit /\ [][DayNext]_vars

\* route.ts: requests, the clock, and the cleanup
LimiterNext ==
    \/ \E h \in Headers : Serve(h, PlainBody, PlainAnswer)
    \/ \E d \in Steps : Tick(d)
    \/ Cleanup

LimiterSpec == LimiterInit /\ [][LimiterNext]_vars

-----------------------------------------------------------------------------
(* Properties *)

PendingFor(w) == {r \in pending : r.word = w}

Phase(w) == wordStates[w].phase

PhaseAfter(w) == wordStates'[w].phase

Kept == DOMAIN wordStates \cap DOMAIN wordStates'

\* C1: at most one assessment request is in flight per word.
C1_OneInFlightPerWord ==
    \A w \in Range(allWords) : Cardinality(PendingFor(w)) <= 1

\* C2: once a word's phase is feedback (Graded) or dismissed it never changes
\* again in this session.
C2_TerminalPhasesStay ==
    [][\A w \in Kept :
          Phase(w) \in {"feedback", "dismissed"} => PhaseAfter(w) = Phase(w)]_vars

\* the transitions of the phase table
PhaseTable ==
    { <<"define", "revealed">>, <<"revealed", "dismissed">>, <<"revealed", "sentence">>,
      <<"sentence", "feedback">>, <<"revealed", "done">> }

\* C3: every change of a word's phase is a transition of the phase table.
C3_OnlyTableTransitions ==
    [][\A w \in Kept :
          PhaseAfter(w) # Phase(w) => <<Phase(w), PhaseAfter(w)>> \in PhaseTable]_vars

\* C4: no step takes a word to feedback (Graded) from define or from revealed.
C4_GradedOnlyAfterSentence ==
    [][\A w \in Kept :
          (PhaseAfter(w) = "feedback" /\ Phase(w) # "feedback")
             => Phase(w) \notin {"define", "revealed"}]_vars

\* the score an outcome hands to the client: the catch branch substitutes 0
ReturnedScore(o) == IF o.kind = "throw" THEN 0 ELSE o.body.score

\* C5: the response to an "I know this one" submission stores its score with the
\* word in revealed, and the callback that follows ends in dismissed exactly when
\* that score is >= 4, and in revealed otherwise.
C5_DismissedIffScoreAtLeast4 ==
    [][ /\ \A r \in pending : \A o \in Outcomes(r) :
              (r.dismiss /\ Respond(r, o)) =>
                 /\ thenFor' = r.word
                 /\ PhaseAfter(r.word) = "revealed"
                 /\ wordStates'[r.word].definitionFeedback.score = ReturnedScore(o)
        /\ \A w \in Range(allWords) :
              DismissThen(w) =>
                 PhaseAfter(w) = IF wordStates[w].definitionFeedback.score >= 4
                                 THEN "dismissed" ELSE "revealed" ]_vars

\* a word dismissed on a score of 4
C5_Witness ==
    \E w \in DOMAIN wordStates :
        Phase(w) = "dismissed" /\ wordStates[w].definitionFeedback.score = 4

\* C6: when the call throws, the word is in revealed (definition) or feedback
\* (sentence) afterwards, with the submitted text and a feedback of score 0 and a
\* non-empty message.
C6_FailureSubstitution ==
    [][\A r \in pending :
          Respond(r, Thrown) =>
             LET s == wordStates'[r.word] IN
             IF r.type = "definition"
             THEN /\ s.phase = "revealed"
                  /\ s.userDefinition = r.userInput
                  /\ s.definitionFeedback.set
                  /\ s.definitionFeedback.score = 0
                  /\ s.definitionFeedback.feedback \notin {"", UndefinedStr}
             ELSE /\ s.phase = "feedback"
                  /\ s.userSentence = r.userInput
                  /\ s.sentenceFeedback.set
                  /\ s.sentenceFeedback.score = 0
                  /\ s.sentenceFeedback.feedback \notin {"", UndefinedStr}]_vars

\* a word graded by the catch branch of a sentence submission
C6_Witness ==
    \E w \in DOMAIN wordStates :
        /\ Phase(w) = "feedback"
        /\ wordStates[w].sentenceFeedback = SentenceFallback
        /\ wordStates[w].userSentence \notin {NoText, <<>>}

\* the phase a request was submitted from
SubmitPhase(r) == IF r.type = "definition" THEN "define" ELSE "sentence"

InFlight(i) == \E r \in pending : r.id = i

\* C7: every request in flight is settled (or dropped by a page reload), and
\* settling it, with whatever outcome, leaves the word in a phase other than the
\* one the submission was made from.
C7_NeverStuckAfterSubmission ==
    /\ \A i \in 1..MaxRequests : InFlight(i) ~> ~InFlight(i)
    /\ [][\A r \in pending : \A o \in Outcomes(r) :
             Respond(r, o) => PhaseAfter(r.word) # SubmitPhase(r)]_vars

\* a definition submission that failed, with the word out of define
C7_Witness ==
    \E w \in DOMAIN wordStates :
        Phase(w) = "revealed" /\ wordStates[w].definitionFeedback = DefinitionFallback

ValidScores == MinScore..MaxScore

StoredFeedbacks(w) ==
    {fb \in {wordStates[w].definitionFeedback, wordStates[w].sentenceFeedback} : fb.set}

\* C8: every stored score is in 1..5, or 0 for a failure, and a dismissed word
\* has a definition score in 4..5.
C8_ScoresValidated ==
    \A w \in DOMAIN wordStates :
        /\ \A fb \in StoredFeedbacks(w) : fb.score \in ValidScores \cup {0}
        /\ Phase(w) = "dismissed" =>
              wordStates[w].definitionFeedback.score \in DismissThreshold..MaxScore

Rejected(o) == o.kind = "response" /\ o.status \notin 200..299

\* the WordState of r.word had the call thrown
AfterThrow(r) == NextStates(wordStates, r.word, AssessUpdate(r, Thrown))[r.word]

TheFeedback(r, state) ==
    IF r.type = "definition" THEN state.definitionFeedback ELSE state.sentenceFeedback

OtherFeedback(r, state) ==
    IF r.type = "definition" THEN state.sentenceFeedback ELSE state.definitionFeedback

C10_RetryAfterFailure ==
    \A w \in DOMAIN wordStates :
        /\ wordStates[w].definitionFeedback = DefinitionFallback => Card(w, "define")
        /\ wordStates[w].sentenceFeedback = SentenceFallback => Card(w, "sentence")

\* C11: a request is sent only for an input that is not empty, not blank and not
\* longer than 1000 characters.
C11_InvalidInputNotSent ==
    [][\A r \in pending' \ pending :
          Trim(r.userInput) # <<>> /\ Length(r.userInput) <= MaxInputLength]_vars

StoredToday == getLocalState(storedState).days[day]

C13_EntriesNeverDeleted ==
    [][\A d \in DOMAIN getLocalState(storedState).days :
          \A w \in DOMAIN getLocalState(storedState).days[d] :
             getLocalState(storedState).days[d][w].phase # "define" =>
                /\ d \in DOMAIN getLocalState(storedState').days
                /\ w \in DOMAIN getLocalState(storedState').days[d]]_vars

EmptyStore == [kind |-> "object", days |-> <<>>]

\* C14: when the item is not a valid store, getLocalState gives the empty store and
\* the load effect completes with every selected word in its fresh state.
C14_CorruptStoreRecovered ==
    [][(LoadEffect /\ storedState.kind # "object") =>
          /\ getLocalState(storedState) = EmptyStore
          /\ ~loading'
          /\ ~uncaught'
          /\ \A w \in Range(dailyWords') : wordStates'[w] = FreshState]_vars

\* C20: after load the count is 3, 4 or 5 and the page has that many words.
C20_CountWordsSelected ==
    ~loading => wordCount \in CountOptions /\ Len(dailyWords) = wordCount

Loads == Reload \/ \E n \in CountOptions : ChangeWordCount(n)

StoredDays == getLocalState(storedState).days

\* C15: a load gives each selected word the entry stored for (today, term) when
\* there is one, and otherwise the fresh state: phase define and no other field;
\* what is stored under other days plays no part.
C15_LoadReadsTodayOnly ==
    [][Loads =>
          /\ DOMAIN wordStates' = Range(dailyWords')
          /\ \A w \in Range(dailyWords') :
                IF day \in DOMAIN StoredDays /\ w \in DOMAIN StoredDays[day]
                THEN wordStates'[w] = StoredDays[day][w]
                ELSE /\ wordStates'[w].phase = "define"
                     /\ PresentFields(wordStates'[w]) = {"phase"}]_vars

\* a word with progress stored under the first day, fresh on the second day
C15_Witness ==
    /\ day = 2
    /\ \E w \in Range(dailyWords) :
          /\ 1 \in DOMAIN StoredDays
          /\ w \in DOMAIN StoredDays[1]
          /\ StoredDays[1][w].phase # "define"
          /\ wordStates[w] = FreshState

\* C18: a load selects the words, in the order, that every engine computes for
\* the same bank, day and count.
C18_SelectionSameOnEveryEngine ==
    [][Loads =>
          \A e \in Engines : dailyWords' = getDailyWords(allWords, day, wordCount', e)]_vars

\* C19: with a count greater than the size of the bank, the selection is the
\* whole bank, each entry once.
C19_CountClampedToBank ==
    (~loading /\ wordCount > Len(allWords)) =>
        /\ Len(dailyWords) = Len(allWords)
        /\ Range(dailyWords) = Range(allWords)

\* a count chosen above the size of the bank, on the second day, and the whole bank
\* selected in another order
C19_Witness ==
    /\ ~loading
    /\ day = 2
    /\ wordCount = 4
    /\ wordCount > Len(allWords)
    /\ dailyWords # allWords
    /\ Range(dailyWords) = Range(allWords)

\* the store a save made now would write
StoreToSave == persistState(StoredDays, day, wordStates)

\* C16: saving a store and loading it again gives the store that was saved.
C16_SaveLoadRoundTrip ==
    ~loading =>
        /\ getLocalState(saveLocalState(StoreToSave)).kind = "object"
        /\ getLocalState(saveLocalState(StoreToSave)).days = StoreToSave
        /\ getLocalState(saveLocalState(StoredDays)).days = StoredDays

\* a stored sentence feedback with score 0 and an empty improved sentence, next to
\* a word that has only its phase
C16_Witness ==
    /\ day \in DOMAIN StoredDays
    /\ \E w \in DOMAIN StoredToday : StoredToday[w].sentenceFeedback = SentenceFallback
    /\ \E w \in DOMAIN StoredToday : StoredToday[w] = FreshState

\* C17: with two tabs on one store, every save leaves as today's stored state the
\* word-state map of the tab that made it.
C17_LastSaveWins ==
    [][storedState' # storedState =>
          /\ day \in DOMAIN getLocalState(storedState').days
          /\ getLocalState(storedState').days[day] =
                IF otherStates' # otherStates THEN otherStates' ELSE wordStates']_vars

\* the second tab saved last: the store holds its map, and the progress the first
\* tab had saved for a word is no longer in the store
C17_Witness ==
    /\ day \in DOMAIN StoredDays
    /\ StoredToday = otherStates
    /\ \E w \in DOMAIN wordStates \cap DOMAIN otherStates :
          wordStates[w].phase = "sentence" /\ otherStates[w].phase # "sentence"

RECURSIVE SumOver(_, _)
SumOver(f, S) ==
    IF S = {} THEN 0
    ELSE LET x == CHOOSE y \in S : TRUE IN f[x] + SumOver(f, S \ {x})

\* requests of ip the limiter let through at times t .. t + RATE_WINDOW_MS - 1
AdmittedFrom(ip, t) ==
    SumOver(admitted[ip], {u \in DOMAIN admitted[ip] : t <= u /\ u < t + RATE_WINDOW_MS})

\* C21: in every span of 60 seconds at most RATE_LIMIT requests of one address are
\* let through to the assessment.
C21_SlidingWindowLimit ==
    \A ip \in DOMAIN admitted : \A t \in DOMAIN admitted[ip] :
        AdmittedFrom(ip, t) <= RATE_LIMIT

\* the route has answered a request whose body is JSON
Answered == reply # NoReply /\ reply.request.json

\* C22: a request whose userInput is missing, empty or longer than 1000 characters
\* is answered with status 400 and score 0 and does not reach the judge; one with 1
\* to 1000 characters and type definition or sentence reaches the judge.
C22_InputCheckedAtBoundary ==
    Answered =>
        IF Falsy(reply.request.userInput) \/ Length(reply.request.userInput) > MaxInputLength
        THEN reply.status = 400 /\ reply.body.score = 0 /\ ~reply.judged
        ELSE reply.request.type \in {"definition", "sentence"} => reply.judged

\* C26: the dismissal is decided on the score of the "I know this one" request
\* itself, whatever another request for the same word returned before or returns
\* after: its response stores its own score, nothing gets between that and the
\* callback, and a word becomes dismissed in the callback only, on a score >= 4.
C26_DismissOnOwnScore ==
    [][ /\ \A r \in pending : \A o \in Outcomes(r) :
              (r.dismiss /\ Respond(r, o)) =>
                 /\ thenFor' = r.word
                 /\ wordStates'[r.word].definitionFeedback.score = ReturnedScore(o)
        /\ \A w \in Kept :
              thenFor = w =>
                 wordStates'[w].definitionFeedback = wordStates[w].definitionFeedback
        /\ \A w \in Kept :
              (PhaseAfter(w) = "dismissed" /\ Phase(w) # "dismissed") =>
                 /\ thenFor = w
                 /\ wordStates[w].definitionFeedback.score >= DismissThreshold ]_vars

\* a word dismissed while another definition request for it is still pending
C26_Witness ==
    \E w \in DOMAIN wordStates :
        /\ Phase(w) = "dismissed"
        /\ \E r \in PendingFor(w) : r.type = "definition" /\ ~r.dismiss

\* n spaces
Blanks(n) == [i \in 1..n |-> " "]

\* text is input without the white space at its two ends
IsTrimOf(text, input) ==
    /\ text = <<>> \/ (Head(text) # " " /\ text[Len(text)] # " ")
    /\ \E a, b \in 0..Len(input) : input = Blanks(a) \o text \o Blanks(b)

\* the response is the judge's
Successful(o) == o.kind = "response" /\ o.status = 200

\* C23: submitting a definition for a word in define sends one definition request
\* with the trimmed, non-empty text and changes no word state; its successful
\* response puts the word in revealed with that text and the returned score and
\* feedback, and leaves every other word's state as it was.
C23_DefinitionSubmitted ==
    [][ /\ \A w \in Range(allWords), input \in Inputs :
              (DefinitionEnter(w, input) \/ DefinitionCheck(w, input)) =>
                 /\ Phase(w) = "define"
                 /\ wordStates' = wordStates
                 /\ \E r \in pending' \ pending :
                       /\ pending' = pending \cup {r}
                       /\ r.type = "definition" /\ r.word = w
                       /\ r.userInput # <<>> /\ IsTrimOf(r.userInput, input)
        /\ \A r \in pending : \A o \in Outcomes(r) :
              (r.type = "definition" /\ Successful(o) /\ Respond(r, o)) =>
                 /\ PhaseAfter(r.word) = "revealed"
                 /\ wordStates'[r.word].userDefinition = r.userInput
                 /\ wordStates'[r.word].definitionFeedback.score = o.body.score
                 /\ wordStates'[r.word].definitionFeedback.feedback = o.body.feedback
                 /\ \A w \in DOMAIN wordStates \ {r.word} :
                       w \in DOMAIN wordStates' /\ wordStates'[w] = wordStates[w] ]_vars

\* two words, each revealed with the definition typed with blanks around it and
\* with the judge's feedback
C23_Witness ==
    /\ Cardinality(DOMAIN wordStates) = 2
    /\ \A w \in DOMAIN wordStates :
          /\ Phase(w) = "revealed"
          /\ wordStates[w].userDefinition = <<"a">>
          /\ wordStates[w].definitionFeedback.feedback = "judge"

\* C24: the mark-as-known shortcut is taken from revealed only; it sets the phase
\* to done, sends no request and changes nothing else of the WordState; and a
\* word in done never changes its phase again.
C24_MarkDoneOnlyFromRevealed ==
    [][ /\ \A w \in Range(allWords) :
              MarkDone(w) =>
                 /\ Phase(w) = "revealed"
                 /\ PhaseAfter(w) = "done"
                 /\ pending' = pending
                 /\ \A f \in Fields \ {"phase"} : wordStates'[w][f] = wordStates[w][f]
        /\ \A w \in Kept : Phase(w) = "done" => PhaseAfter(w) = "done" ]_vars

\* C25: every save leaves under the current day key word states of terms of that
\* day's selection only.
C25_StoredTermsAreTodaysSelection ==
    [][storedState' # storedState =>
          DOMAIN getLocalState(storedState').days[day'] \subseteq
              Range(getDailyWords(allWords, day', wordCount', engine'))]_vars

\* s is the beginning of t
IsPrefix(s, t) == Len(s) <= Len(t) /\ s = SubSeq(t, 1, Len(s))

\* C28: within one day the selection for a smaller count is the beginning of the
\* selection for a larger one, and a change of the count reloads every word that
\* is selected before and after it with the state it had.
C28_CommonWordsKeepTheirState ==
    [][\A n \in CountOptions :
          ChangeWordCount(n) =>
             /\ IF n <= wordCount THEN IsPrefix(dailyWords', dailyWords)
                ELSE IsPrefix(dailyWords, dailyWords')
             /\ \A w \in Range(dailyWords) \cap Range(dailyWords') :
                   wordStates'[w] = wordStates[w]]_vars

\* the count was lowered to 3 after the last save, which still holds four words,
\* and a word of the new selection has the progress made before
C28_Witness ==
    /\ wordCount = 3
    /\ day \in DOMAIN StoredDays
    /\ Cardinality(DOMAIN StoredToday) = 4
    /\ \E w \in DOMAIN wordStates : Phase(w) # "define"

\* the fields a WordState has are the ones its phase stands for
FieldsMatchPhase(state) ==
    /\ state.phase \in {"revealed", "sentence", "feedback", "dismissed"} =>
          /\ state.userDefinition \notin {NoText, <<>>}
          /\ state.definitionFeedback.set
    /\ state.phase = "feedback" =>
          /\ state.userSentence \notin {NoText, <<>>}
          /\ state.sentenceFeedback.set
    /\ state.phase = "define" =>
          /\ state.userDefinition = NoText /\ ~state.definitionFeedback.set
          /\ state.userSentence = NoText /\ ~state.sentenceFeedback.set

AllFieldsMatchPhase == \A w \in DOMAIN wordStates : FieldsMatchPhase(wordStates[w])

\* C27: from an empty store on, every word past define has its definition and its
\* definition feedback, a word in feedback also its sentence and sentence feedback,
\* a word in define has none of them; and the step from revealed to sentence
\* leaves definition and definition feedback as they were.
C27_FieldsFollowPhase ==
    /\ AllFieldsMatchPhase
    /\ [][ /\ AllFieldsMatchPhase'
           /\ \A w \in Range(allWords) :
                 MoveSentence(w) =>
                    /\ Phase(w) = "revealed" /\ PhaseAfter(w) = "sentence"
                    /\ wordStates'[w].userDefinition = wordStates[w].userDefinition
                    /\ wordStates'[w].definitionFeedback = wordStates[w].definitionFeedback
         ]_vars

\* a graded word with all four fields, another definition response still to come
C27_Witness ==
    \E w \in DOMAIN wordStates :
        /\ Phase(w) = "feedback"
        /\ wordStates[w].userSentence = <<"a">>
        /\ wordStates[w].sentenceFeedback.set /\ wordStates[w].definitionFeedback.set
        /\ \E r \in PendingFor(w) : r.type = "definition"

\* C29: a request inside an address's window (up to and including its reset time)
\* is counted in it and leaves the reset time where the opening request put it,
\* rejected or not; a request after the reset time, or the first one of the
\* address, is admitted and opens a window of RATE_WINDOW_MS with count 1.
C29_WindowFixedByFirstRequest ==
    [][serves' # serves =>
          LET ip == reply'.ip
          IN  IF ip \in DOMAIN rateMap /\ now <= rateMap[ip].resetAt
              THEN /\ rateMap'[ip].resetAt = rateMap[ip].resetAt
                   /\ rateMap'[ip].count = rateMap[ip].count + 1
                   /\ (reply'.status = 429) = (rateMap'[ip].count > RATE_LIMIT)
              ELSE /\ reply'.status # 429
                   /\ rateMap'[ip] = [count |-> 1, resetAt |-> now + RATE_WINDOW_MS]]_vars

\* a request rejected at exactly the reset time of its window
C29_Witness ==
    /\ reply.status = 429
    /\ reply.ip \in DOMAIN rateMap
    /\ reply.at = rateMap[reply.ip].resetAt

\* C30: the limiter decides every request as it would had the cleanup never run,
\* and the cleanup removes no entry whose window is still open.
C30_CleanupChangesNoDecision ==
    [][ /\ serves' # serves => reply'.limited = reply'.plain
        /\ \A ip \in DOMAIN rateMap \ DOMAIN rateMap' : now > rateMap[ip].resetAt
        /\ \A ip \in DOMAIN rateMap' : rateMap'[ip] = uncleaned'[ip] ]_vars

\* a request that arrived after the cleanup had removed its address's entry
C30_Witness == reply # NoReply /\ ~reply.known /\ reply.plainKnown

====
